---------------------------- MODULE Spec2Model ----------------------------
(***************************************************************************)
(* Model of the release-engineering scripts under .github/scripts:         *)
(*   prepare_documentation.py  (DocumentationManager)                      *)
(*   patch_doxyfile.py         (DoxyfileUpdater)                           *)
(*                                                                         *)
(* Version names are sequences of one-character strings, so that the       *)
(* string operations of the scripts (endswith, in, split, lower, int, the  *)
(* version regular expression) are computed on the rendered text and not   *)
(* on a structured value.                                                  *)
(***************************************************************************)
EXTENDS Integers, Sequences, FiniteSets, TLC

(***************************************************************************)
(* Bounds of the model.                                                    *)
(***************************************************************************)
\* major, minor and patch of the names given to the sort key range over 0..KeyMaxPart
KeyMaxPart == 1
\* release-candidate numbers of the names given to the sort key: 1..KeyMaxRc
KeyMaxRc == 2
\* release-candidate numbers of the versions published into the tree: 1..TreeMaxRc
TreeMaxRc == 1
\* number of runs of prepare_documentation in one behaviour
MaxPublish == 2
\* number of lines of a CMakeLists.txt
MaxCMakeLines == 3

(***************************************************************************)
(* Text.                                                                   *)
(***************************************************************************)
DigitChars == <<"0", "1", "2", "3", "4", "5", "6", "7", "8", "9">>

UpperChars == <<"A", "B", "C", "D", "E", "F", "G", "H", "I", "J", "K", "L", "M",
                "N", "O", "P", "Q", "R", "S", "T", "U", "V", "W", "X", "Y", "Z">>

LowerChars == <<"a", "b", "c", "d", "e", "f", "g", "h", "i", "j", "k", "l", "m",
                "n", "o", "p", "q", "r", "s", "t", "u", "v", "w", "x", "y", "z">>

Range(f) == {f[i] : i \in DOMAIN f}

Digits == Range(DigitChars)
Uppers == Range(UpperChars)

IsDigit(c) == c \in Digits

DigitVal(c) == (CHOOSE i \in 1..10 : DigitChars[i] = c) - 1

\* the text literals of the scripts
SNAPSHOT == <<"S", "N", "A", "P", "S", "H", "O", "T">>
DASH_SNAPSHOT == <<"-">> \o SNAPSHOT
DASH_RC == <<"-", "r", "c">>
RC == <<"r", "c">>
DASH == <<"-">>
DOT == <<".">>
LATEST == <<"l", "a", "t", "e", "s", "t">>

Drop(s, n) == SubSeq(s, n + 1, Len(s))

\* str.startswith / str.endswith
StartsWith(s, p) == Len(p) <= Len(s) /\ SubSeq(s, 1, Len(p)) = p
EndsWith(s, p) == Len(p) <= Len(s) /\ SubSeq(s, Len(s) - Len(p) + 1, Len(s)) = p

\* str.find(sub), from position k on, counted from 1; 0 when sub is not found
RECURSIVE Find(_, _, _)
Find(s, sub, k) ==
    IF k + Len(sub) - 1 > Len(s) THEN 0
    ELSE IF SubSeq(s, k, k + Len(sub) - 1) = sub THEN k
    ELSE Find(s, sub, k + 1)

\* `sub in s`
Contains(s, sub) == Find(s, sub, 1) # 0

\* str.lower
LowerChar(c) ==
    IF c \in Uppers THEN LowerChars[CHOOSE k \in 1..26 : UpperChars[k] = c] ELSE c

RECURSIVE Lower(_)
Lower(s) == IF s = <<>> THEN <<>> ELSE <<LowerChar(Head(s))>> \o Lower(Tail(s))

\* str.split(sep): the pieces between the occurrences of sep, left to right
RECURSIVE Split(_, _)
Split(s, sep) ==
    LET i == Find(s, sep, 1)
    IN  IF i = 0 THEN <<s>>
        ELSE <<SubSeq(s, 1, i - 1)>> \o Split(Drop(s, i + Len(sep) - 1), sep)

\* str(n) of a natural number
RECURSIVE IntToStr(_)
IntToStr(n) ==
    IF n < 10 THEN <<DigitChars[n + 1]>>
    ELSE IntToStr(n \div 10) \o <<DigitChars[(n % 10) + 1]>>

\* a non-empty run of decimal digits: what int() accepts here
IsDigits(s) == Len(s) >= 1 /\ \A i \in 1..Len(s) : IsDigit(s[i])

\* int(s) of a run of digits
RECURSIVE StrToInt(_)
StrToInt(s) ==
    IF Len(s) = 0 THEN 0
    ELSE 10 * StrToInt(SubSeq(s, 1, Len(s) - 1)) + DigitVal(s[Len(s)])

\* length of the longest prefix of s made of digits (the greedy \d+)
RECURSIVE DigitRunLen(_)
DigitRunLen(s) ==
    IF s = <<>> \/ ~IsDigit(Head(s)) THEN 0 ELSE 1 + DigitRunLen(Tail(s))

(***************************************************************************)
(* DocumentationManager.version_pattern:                                   *)
(*   ^\d+\.\d+\.\d+(?:-rc\d+)?(?:-SNAPSHOT)?$                              *)
(***************************************************************************)
\* what is left of s after \d+ (and after \d+\. for the second); <<"!">> when
\* there is no match, which no later step of the pattern accepts
AfterNumber(s) ==
    LET n == DigitRunLen(s) IN IF n >= 1 THEN Drop(s, n) ELSE <<"!">>

AfterNumberDot(s) ==
    LET r == AfterNumber(s) IN IF StartsWith(r, DOT) THEN Drop(r, 1) ELSE <<"!">>

VersionPattern(s) ==
    LET r3 == AfterNumber(AfterNumberDot(AfterNumberDot(s)))
        r4 == IF StartsWith(r3, DASH_RC) /\ DigitRunLen(Drop(r3, 3)) >= 1
              THEN AfterNumber(Drop(r3, 3))
              ELSE r3
    IN  r4 = <<>> \/ r4 = DASH_SNAPSHOT

(***************************************************************************)
(* packaging.version.parse on the first '-'-separated piece of a name.     *)
(* Only plain release segments N(.N)* are given to it here; anything else  *)
(* in the input sets of this model raises InvalidVersion.                  *)
(***************************************************************************)
ParseOk(base_version) ==
    LET parts == Split(base_version, DOT) IN \A i \in 1..Len(parts) : IsDigits(parts[i])

\* (v.major, v.minor, v.micro): missing components of the release are 0
ParseRelease(base_version) ==
    LET parts == Split(base_version, DOT)
        Component(i) == IF i <= Len(parts) THEN StrToInt(parts[i]) ELSE 0
    IN  <<Component(1), Component(2), Component(3)>>

(***************************************************************************)
(* DocumentationManager._get_version_key                                   *)
(***************************************************************************)
\* the key returned when parse raises InvalidVersion
InvalidVersionKey == <<0, 0, 0, 999>>

\* int() raising ValueError leaves _get_version_key by an exception that is
\* not caught; no name of the input sets below reaches it
ValueErrorKey == <<>>

\* _get_version_key with the category in front of the base version
GetVersionKey_CategoryFirst(version_str) ==
    LET base_version == Split(version_str, DASH)[1]
        base == ParseRelease(base_version)
        lowered == Lower(version_str)
    IN  IF ~ParseOk(base_version) THEN InvalidVersionKey
        ELSE IF Contains(lowered, RC)
        THEN LET rc_text == Split(Split(lowered, RC)[2], DASH)[1]
             IN  IF Contains(version_str, SNAPSHOT)
                 THEN <<0, StrToInt(rc_text)>> \o base
                 ELSE <<1, StrToInt(rc_text)>> \o base
        ELSE IF Contains(version_str, SNAPSHOT) THEN <<2, 0>> \o base
        ELSE <<3, 0>> \o base

\* _get_version_key with the plain snapshot below the candidates
GetVersionKey_SnapshotLowest(version_str) ==
    LET base_version == Split(version_str, DASH)[1]
        base == ParseRelease(base_version)
        lowered == Lower(version_str)
    IN  IF ~ParseOk(base_version) THEN InvalidVersionKey
        ELSE IF Contains(lowered, RC)
        THEN LET rc_text == Split(Split(lowered, RC)[2], DASH)[1]
             IN  IF Contains(version_str, SNAPSHOT)
                 THEN base \o <<1, StrToInt(rc_text)>>
                 ELSE base \o <<2, StrToInt(rc_text)>>
        ELSE IF Contains(version_str, SNAPSHOT) THEN base \o <<0, 0>>
        ELSE base \o <<3, 0>>

GetVersionKey(version_str) ==
    LET base_version == Split(version_str, DASH)[1]
        base == ParseRelease(base_version)
        lowered == Lower(version_str)
    IN  IF ~ParseOk(base_version) THEN InvalidVersionKey
        ELSE IF Contains(lowered, RC)
        THEN LET rc_text == Split(Split(lowered, RC)[2], DASH)[1]
             IN  IF ~IsDigits(rc_text) THEN ValueErrorKey
                 ELSE IF Contains(version_str, SNAPSHOT)
                      THEN base \o <<0, StrToInt(rc_text)>>
                      ELSE base \o <<1, StrToInt(rc_text)>>
        ELSE IF Contains(version_str, SNAPSHOT) THEN base \o <<2, 0>>
        ELSE base \o <<3, 0>>

\* Python's order on tuples of integers: a < b
TupleLess(a, b) ==
    \/ \E i \in 1..Len(a) :
          /\ i <= Len(b)
          /\ a[i] < b[i]
          /\ \A j \in 1..(i - 1) : a[j] = b[j]
    \/ /\ Len(a) < Len(b)
       /\ \A j \in 1..Len(a) : a[j] = b[j]


\* sorted(versions, key=self._get_version_key): the key of every element is
\* computed once, and the sort is stable and only uses < on the keys.
\* InsertSorted puts index x into the sorted indices s, after the equal keys.
InsertSorted(s, x, keys) ==
    LET p == Cardinality({i \in 1..Len(s) : ~TupleLess(keys[x], keys[s[i]])})
    IN  SubSeq(s, 1, p) \o <<x>> \o SubSeq(s, p + 1, Len(s))

RECURSIVE SortedIndices(_, _)
SortedIndices(n, keys) ==
    IF n = 0 THEN <<>> ELSE InsertSorted(SortedIndices(n - 1, keys), n, keys)

RECURSIVE Keys(_)
Keys(versions) ==
    IF versions = <<>> THEN <<>>
    ELSE <<GetVersionKey(Head(versions))>> \o Keys(Tail(versions))

RECURSIVE Pick(_, _)
Pick(versions, order) ==
    IF order = <<>> THEN <<>>
    ELSE <<versions[Head(order)]>> \o Pick(versions, Tail(order))

Sorted(versions) == Pick(versions, SortedIndices(Len(versions), Keys(versions)))

\* reversed(sorted_versions)
RECURSIVE Reversed(_)
Reversed(s) == IF s = <<>> THEN <<>> ELSE Reversed(Tail(s)) \o <<Head(s)>>

\* Path('.').glob('*'): the entries of a directory in some order
RECURSIVE Glob(_)
Glob(S) ==
    IF S = {} THEN <<>>
    ELSE LET d == CHOOSE x \in S : TRUE IN <<d>> \o Glob(S \ {d})

(***************************************************************************)
(* The documentation tree (the gh-pages checkout): the directories, the    *)
(* ones the Doxygen output was copied into, the `latest` symlink (<<>>     *)
(* when there is none), robots.txt and the rows of list_versions.md.       *)
(***************************************************************************)
NoLatest == <<>>

\* Path("latest").exists(): the link is there and its target is a directory
LatestExists(ds, latest) == latest # NoLatest /\ latest \in ds

\* _generate_versions_list writing sorted_versions without reversing it
GenerateVersionsList_NotReversed(ds, latest) ==
    (IF LatestExists(ds, latest) THEN <<LATEST>> ELSE <<>>)
        \o Sorted(Glob({d \in ds : VersionPattern(d)}))

\* DocumentationManager._generate_versions_list: the rows written after the
\* two header lines, each row named by the text of its first column
GenerateVersionsList(ds, latest) ==
    LET versions == Glob({d \in ds : VersionPattern(d)})
        sorted_versions == Sorted(versions)
    IN  (IF LatestExists(ds, latest) THEN <<LATEST>> ELSE <<>>) \o Reversed(sorted_versions)

\* the first '-'-separated piece of a name
BaseOf(name) == Split(name, DASH)[1]

\* SnapshotToDelete removing every snapshot of the base version
SnapshotToDelete_EverySnapshotOfBase(ds, version) ==
    IF ~EndsWith(version, DASH_SNAPSHOT)
    THEN {d \in ds : EndsWith(d, DASH_SNAPSHOT) /\ BaseOf(d) = BaseOf(version)}
    ELSE {}

\* SnapshotToDelete removing every other directory of the base version
SnapshotToDelete_EveryOtherOfBase(ds, version) ==
    IF ~EndsWith(version, DASH_SNAPSHOT)
    THEN {d \in ds : d # version /\ BaseOf(d) = BaseOf(version)}
    ELSE {}

\* "Delete existing SNAPSHOT directory...": the directories removed
SnapshotToDelete(ds, version) ==
    IF ~EndsWith(version, DASH_SNAPSHOT)
    THEN IF Contains(version, DASH_RC)
         THEN {version \o DASH_SNAPSHOT} \cap ds
         ELSE {version \o DASH_SNAPSHOT} \cap ds
    ELSE {}

\* not any(x in version for x in ["-SNAPSHOT", "-rc"])
IsFinalVersion(version) ==
    ~(Contains(version, DASH_SNAPSHOT) \/ Contains(version, DASH_RC))

\* PromoteLatest leaving an existing link alone
PromoteLatest_OnlyWhenAbsent(latest, version) ==
    IF IsFinalVersion(version) /\ latest = NoLatest THEN version ELSE latest

\* PromoteLatest with symlink_to in the else branch of the exists() test
PromoteLatest_UnlinkOrLink(latest, version) ==
    IF IsFinalVersion(version)
    THEN IF latest # NoLatest THEN NoLatest ELSE version
    ELSE latest

\* "Creating latest symlink...": the target of `latest` after the block
PromoteLatest(latest, version) ==
    IF IsFinalVersion(version) THEN version ELSE latest

\* prepare_documentation from the deletion of the snapshot on, on the tree t
PrepareDocumentation(t, version, doxygen_out) ==
    LET to_delete == SnapshotToDelete(t.dirs, version)
        dirs1 == (t.dirs \ to_delete) \cup {version}
        filled0 == t.filled \ to_delete
        filled1 == filled0 \cup {version}
        latest1 == PromoteLatest(t.latest, version)
    IN  IF ~doxygen_out
        THEN [t EXCEPT !.dirs = dirs1, !.filled = filled0, !.outcome = "FileNotFoundError"]
        ELSE IF IsFinalVersion(version) /\ t.latest # NoLatest /\ ~LatestExists(dirs1, t.latest)
        THEN \* exists() is False on a dangling link and symlink_to finds the name taken
             [t EXCEPT !.dirs = dirs1, !.filled = filled1, !.outcome = "FileExistsError"]
        ELSE [dirs |-> dirs1,
              filled |-> filled1,
              latest |-> latest1,
              robots |-> (t.robots \/ IsFinalVersion(version)),
              list_versions |-> GenerateVersionsList(dirs1, latest1),
              outcome |-> "ok"]

(***************************************************************************)
(* CMakeLists.txt as a sequence of lines.  A line is of one kind: a        *)
(* PROJECT(... VERSION x.y.z ...) call, a SET(RC_VERSION "n"), a           *)
(* SET(PACKAGE_VERSION "${PROJECT_VERSION}") or anything else; hash tells  *)
(* whether the line starts with '#'.                                       *)
(***************************************************************************)
CMakeLine(kind, hash, text) == [kind |-> kind, hash |-> hash, text |-> text]

\* project_version_pattern (no anchor, so a '#' before it is not seen): the
\* lines it matches; re.search returns the first
ProjectMatches(content) == {i \in 1..Len(content) : content[i].kind = "project"}

\* rc_pattern = ^[^#]*SET\s*\(RC_VERSION\s*"(\d+)"\s*\) with re.MULTILINE.
\* [^#]* also runs over line ends: from the start of line p it reaches every
\* line up to the next '#'; being greedy, it stops at the last marker there.
RcReach(content, p) ==
    {i \in p..Len(content) :
        /\ \A j \in p..i : ~content[j].hash
        /\ content[i].kind = "rc"}

RcStarts(content) == {p \in 1..Len(content) : RcReach(content, p) # {}}

Min(S) == CHOOSE x \in S : \A y \in S : x <= y
Max(S) == CHOOSE x \in S : \A y \in S : x >= y

\* rc_match.group(1) of the match re.search returns
RcMatchText(content) == content[Max(RcReach(content, Min(RcStarts(content))))].text

\* package_pattern (no anchor): is there a released-marker
PackageMatches(content) == \E i \in 1..Len(content) : content[i].kind = "package"

Returned(text) == [raised |-> FALSE, text |-> text]
ValueError == [raised |-> TRUE, text |-> <<>>]

\* DocumentationManager._parse_cmake_version (prepare_documentation.py)
DocumentationManagerParseCMakeVersion(content) ==
    IF ProjectMatches(content) = {} THEN ValueError
    ELSE LET version == content[Min(ProjectMatches(content))].text
         IN  IF RcStarts(content) # {}
             THEN Returned(version \o DASH_RC \o RcMatchText(content) \o DASH_SNAPSHOT)
             ELSE Returned(version \o DASH_SNAPSHOT)

\* DoxyfileUpdater._parse_cmake_version (patch_doxyfile.py)
DoxyfileUpdaterParseCMakeVersion(content) ==
    IF ProjectMatches(content) = {} THEN ValueError
    ELSE LET version == content[Min(ProjectMatches(content))].text
             is_release == PackageMatches(content)
         IN  IF RcStarts(content) # {}
             THEN Returned(version \o DASH_RC \o RcMatchText(content))
             ELSE IF ~is_release THEN Returned(version \o DASH_SNAPSHOT)
             ELSE Returned(version)

(***************************************************************************)
(* The inputs: version names rendered from their components, in the fixed  *)
(* order MAJOR.MINOR.PATCH[-rcN][-SNAPSHOT] (rc = 0: no -rcN).             *)
(***************************************************************************)
Render(v) ==
    IntToStr(v.major) \o DOT \o IntToStr(v.minor) \o DOT \o IntToStr(v.patch)
        \o (IF v.rc > 0 THEN DASH_RC \o IntToStr(v.rc) ELSE <<>>)
        \o (IF v.snap THEN DASH_SNAPSHOT ELSE <<>>)

\* the versions whose names are given to _get_version_key
KeyVersions ==
    [major : 0..KeyMaxPart, minor : 0..KeyMaxPart, patch : 0..KeyMaxPart,
     rc : 0..KeyMaxRc, snap : BOOLEAN]

\* names whose first piece packaging cannot parse
InvalidNames == {<<"a", "b", "c">>, <<"x", ".", "y", ".", "z", "-", "r", "c", "1">>}

KeyNames == {Render(v) : v \in KeyVersions} \cup InvalidNames

\* the base versions published into the tree
TreeBases == {<<2, 0, 1>>, <<2, 1, 0>>}

TreeVersions ==
    {[major |-> b[1], minor |-> b[2], patch |-> b[3], rc |-> r, snap |-> s] :
        b \in TreeBases, r \in 0..TreeMaxRc, s \in BOOLEAN}

\* a --version that is not of the version grammar
OddVersions == {<<"2", ".", "1">>}

\* the values of --version; <<>> is its absence
VersionArgs == {Render(v) : v \in TreeVersions} \cup OddVersions \cup {<<>>}

\* the lines a CMakeLists.txt is made of
CMakeLines ==
    {CMakeLine("project", FALSE, <<"2", ".", "1", ".", "0">>),
     CMakeLine("rc", FALSE, <<"1">>),
     CMakeLine("rc", TRUE, <<"2">>),
     CMakeLine("package", FALSE, <<>>),
     CMakeLine("other", FALSE, <<>>),
     CMakeLine("other", TRUE, <<>>)}

RECURSIVE SeqsUpTo(_, _)
SeqsUpTo(S, n) ==
    IF n = 0 THEN {<<>>}
    ELSE LET shorter == SeqsUpTo(S, n - 1)
         IN  shorter \cup {Append(q, x) : q \in shorter, x \in S}

CMakeConfigs == SeqsUpTo(CMakeLines, MaxCMakeLines)

\* the CMakeLists.txt of the checkouts the documentation is published from
TreeConfigs ==
    {<<CMakeLine("project", FALSE, <<"2", ".", "1", ".", "0">>), CMakeLine("rc", FALSE, <<"1">>)>>,
     <<CMakeLine("other", FALSE, <<>>)>>}

(***************************************************************************)
(* State.                                                                  *)
(***************************************************************************)
VARIABLES
    dirs,            \* the directories of the documentation tree
    filled,          \* the directories the Doxygen output was copied into
    latest,          \* the target of the `latest` symlink, NoLatest without one
    robots,          \* robots.txt was written
    list_versions,   \* the rows of list_versions.md
    outcome,         \* how the last run of prepare_documentation ended
    version,         \* the version of the last run
    orig,            \* the tree before the last run
    nPublish,        \* the number of runs so far
    cmake,           \* the content of CMakeLists.txt
    versions,        \* the names handed to sorted()
    listing,         \* reversed(sorted_versions)
    doc_version,     \* result of DocumentationManager._parse_cmake_version
    doxy_version     \* result of DoxyfileUpdater._parse_cmake_version

treeVars == <<dirs, filled, latest, robots, list_versions, outcome, version, orig, nPublish>>
keyVars == <<versions, listing>>
parseVars == <<doc_version, doxy_version>>
vars == <<treeVars, cmake, keyVars, parseVars>>

Tree ==
    [dirs |-> dirs, filled |-> filled, latest |-> latest, robots |-> robots,
     list_versions |-> list_versions, outcome |-> outcome]

EmptyTree ==
    [dirs |-> {}, filled |-> {}, latest |-> NoLatest, robots |-> FALSE,
     list_versions |-> <<>>, outcome |-> "none"]

NotParsed == Returned(<<>>)

InitTree ==
    /\ dirs = {} /\ filled = {} /\ latest = NoLatest /\ robots = FALSE
    /\ list_versions = <<>> /\ outcome = "none" /\ version = <<>>
    /\ orig = EmptyTree /\ nPublish = 0

InitKey == versions = <<>> /\ listing = <<>>

InitParse == doc_version = NotParsed /\ doxy_version = NotParsed

(***************************************************************************)
(* The documentation tree under runs of prepare_documentation.  Every run  *)
(* works on a fresh clone of the gh-pages branch; the tree of the model is *)
(* that branch, each run's result being what the next one clones.          *)
(***************************************************************************)
Init == InitTree /\ InitKey /\ InitParse /\ cmake \in TreeConfigs

SetTree(t) ==
    /\ dirs' = t.dirs /\ filled' = t.filled /\ latest' = t.latest
    /\ robots' = t.robots /\ list_versions' = t.list_versions /\ outcome' = t.outcome

\* prepare_documentation(version): arg is --version, doxygen_out whether
\* ../.github/doxygen/out/html exists
RunPrepareDocumentation(arg, doxygen_out) ==
    /\ nPublish < MaxPublish
    /\ nPublish' = nPublish + 1
    /\ orig' = Tree
    /\ LET parsed == IF arg = <<>> THEN DocumentationManagerParseCMakeVersion(cmake)
                     ELSE Returned(arg)
       IN  IF parsed.raised
           THEN /\ SetTree([Tree EXCEPT !.outcome = "ValueError"])
                /\ version' = <<>>
           ELSE /\ SetTree(PrepareDocumentation(Tree, parsed.text, doxygen_out))
                /\ version' = parsed.text
    /\ UNCHANGED <<cmake, keyVars, parseVars>>

Next == \E arg \in VersionArgs, doxygen_out \in BOOLEAN : RunPrepareDocumentation(arg, doxygen_out)

Spec == Init /\ [][Next]_vars

(***************************************************************************)
(* _generate_versions_list's ordering on its own: the names found are      *)
(* sorted by _get_version_key and written in reverse.                      *)
(***************************************************************************)
\* the names of the versions of one base version
SameBaseNames(major, minor, patch) ==
    {Render(v) : v \in {w \in KeyVersions :
                          w.major = major /\ w.minor = minor /\ w.patch = patch}}

KeyInputs ==
    {Glob(S) : S \in UNION {SUBSET SameBaseNames(a, b, c) \ {{}} :
                                a \in 0..KeyMaxPart, b \in 0..KeyMaxPart, c \in 0..KeyMaxPart}}
    \cup {p \in KeyNames \X KeyNames : p[1] # p[2]}

InitSort ==
    /\ InitTree /\ InitParse /\ cmake = <<>>
    /\ versions \in KeyInputs
    /\ listing = <<>>

SortVersions ==
    /\ listing = <<>>
    /\ listing' = Reversed(Sorted(versions))
    /\ UNCHANGED <<treeVars, cmake, versions, parseVars>>

NextSort == SortVersions

SpecSort == InitSort /\ [][NextSort]_vars

(***************************************************************************)
(* The two _parse_cmake_version on one CMakeLists.txt.                     *)
(***************************************************************************)
InitCMake ==
    /\ InitTree /\ InitKey /\ InitParse
    /\ cmake \in CMakeConfigs

ParseForDocumentation ==
    /\ doc_version = NotParsed
    /\ doc_version' = DocumentationManagerParseCMakeVersion(cmake)
    /\ UNCHANGED <<treeVars, cmake, keyVars, doxy_version>>

ParseForDoxyfile ==
    /\ doxy_version = NotParsed
    /\ doxy_version' = DoxyfileUpdaterParseCMakeVersion(cmake)
    /\ UNCHANGED <<treeVars, cmake, keyVars, doc_version>>

NextCMake == ParseForDocumentation \/ ParseForDoxyfile

SpecCMake == InitCMake /\ [][NextCMake]_vars

(***************************************************************************)
(* What the names stand for, from the components they were rendered from:  *)
(* the terms in which the properties below are stated.                     *)
(***************************************************************************)
\* <<name, version>> for every version of the input sets
VersionInfo == {<<Render(v), v>> : v \in KeyVersions \cup TreeVersions}

GrammarNames == {p[1] : p \in VersionInfo}

InfoOf(name) == (CHOOSE p \in VersionInfo : p[1] = name)[2]

\* <<triple, the names of that (major, minor, patch)>>
NamesByTriple ==
    {<<t, {p[1] : p \in {q \in VersionInfo : <<q[2].major, q[2].minor, q[2].patch>> = t}}>> :
        t \in {<<q[2].major, q[2].minor, q[2].patch>> : q \in VersionInfo}}

TripleOf(name) == (CHOOSE p \in NamesByTriple : name \in p[2])[1]

\* final releases: neither -rcN nor -SNAPSHOT
StableNames == {p[1] : p \in {q \in VersionInfo : q[2].rc = 0 /\ ~q[2].snap}}

\* lexicographic order on (major, minor, patch)
TripleLess(a, b) ==
    \/ a[1] < b[1]
    \/ a[1] = b[1] /\ a[2] < b[2]
    \/ a[1] = b[1] /\ a[2] = b[2] /\ a[3] < b[3]

RangeOf(s) == {s[i] : i \in 1..Len(s)}

\* a run of prepare_documentation that got past the version
PublishStep == nPublish' = nPublish + 1 /\ outcome' \in {"ok", "FileNotFoundError"}

(***************************************************************************)
(* C1.  Whenever `latest` exists, it points to the greatest final release  *)
(* (by major, minor, patch) among the published directories of the tree,   *)
(* whatever the order in which the versions were published.                *)
(***************************************************************************)
C1_LatestIsGreatestStable ==
    \A d \in filled \cap StableNames :
        latest \in StableNames => ~TripleLess(TripleOf(latest), TripleOf(d))

(***************************************************************************)
(* C2.  A run for version v removes nothing when v ends with -SNAPSHOT,    *)
(* and otherwise exactly the directory v-SNAPSHOT when there is one; every *)
(* other directory stays.                                                  *)
(***************************************************************************)
C2_RemovesOnlyOwnSnapshot ==
    [][PublishStep =>
          dirs \ dirs' = IF EndsWith(version', DASH_SNAPSHOT) THEN {}
                         ELSE {version' \o DASH_SNAPSHOT} \cap dirs]_vars

\* a release was published over its own snapshot, which is gone
C2_Witness ==
    /\ outcome = "ok"
    /\ ~EndsWith(version, DASH_SNAPSHOT)
    /\ (version \o DASH_SNAPSHOT) \in orig.dirs
    /\ (version \o DASH_SNAPSHOT) \notin dirs
    /\ orig.dirs \ {version \o DASH_SNAPSHOT} \subseteq dirs

(***************************************************************************)
(* C3.  A successful run for v points `latest` at v if and only if v is a  *)
(* final release, whatever `latest` was; a run for a candidate or a        *)
(* snapshot leaves `latest` as it was.                                     *)
(***************************************************************************)
C3_LatestFollowsFinalReleases ==
    [][PublishStep =>
          /\ outcome' = "ok" =>
                ((latest' = version') <=> (version' \in StableNames \cup OddVersions))
          /\ version' \notin (StableNames \cup OddVersions) => latest' = latest]_vars

\* `latest` pointed to another release and was re-pointed
C3_Witness ==
    /\ outcome = "ok"
    /\ version \in StableNames
    /\ orig.latest \in StableNames \ {version}
    /\ TripleLess(TripleOf(version), TripleOf(orig.latest))
    /\ latest = version

(***************************************************************************)
(* C4.  The listing of versions of one (major, minor, patch).              *)
(***************************************************************************)
\* the versions handed to sorted() are of the grammar and of one base version
OneBaseVersion ==
    /\ RangeOf(versions) \subseteq GrammarNames
    /\ \A i \in 1..Len(versions) : TripleOf(versions[i]) = TripleOf(versions[1])

\* as stated: stable, released candidates, snapshot candidates, plain snapshot
StatedRank(v) ==
    IF v.rc = 0 /\ ~v.snap THEN 0
    ELSE IF v.rc > 0 /\ ~v.snap THEN 1
    ELSE IF v.rc > 0 THEN 2
    ELSE 3

\* as sorted: stable, plain snapshot, released candidates, snapshot candidates
SortedRank(v) ==
    IF v.rc = 0 /\ ~v.snap THEN 0
    ELSE IF v.rc = 0 THEN 1
    ELSE IF ~v.snap THEN 2
    ELSE 3

\* C4 as stated: most recent first, the versions of one base version come
\* stable, then released candidates by descending rc, then snapshot
\* candidates by descending rc, then the plain snapshot
C4_StatedOrder ==
    (listing # <<>> /\ OneBaseVersion) =>
        \A i, j \in 1..Len(listing) :
            i < j => LET v == InfoOf(listing[i])
                         w == InfoOf(listing[j])
                     IN  \/ StatedRank(v) < StatedRank(w)
                         \/ StatedRank(v) = StatedRank(w) /\ v.rc > w.rc

\* C4 amended: most recent first, the versions of one base version come
\* stable, then the plain snapshot, then released candidates by descending
\* rc, then snapshot candidates by descending rc
C4_SortedOrder ==
    (listing # <<>> /\ OneBaseVersion) =>
        \A i, j \in 1..Len(listing) :
            i < j => LET v == InfoOf(listing[i])
                         w == InfoOf(listing[j])
                     IN  \/ SortedRank(v) < SortedRank(w)
                         \/ SortedRank(v) = SortedRank(w) /\ v.rc > w.rc

\* a listing of one base version with the four kinds and two rc numbers
C4_Witness ==
    /\ listing # <<>>
    /\ OneBaseVersion
    /\ \E i, j \in 1..Len(listing) :
          /\ InfoOf(listing[i]).rc = 0 /\ InfoOf(listing[i]).snap
          /\ InfoOf(listing[j]).rc = 0 /\ ~InfoOf(listing[j]).snap
    /\ \E i, j \in 1..Len(listing) :
          /\ InfoOf(listing[i]).rc = 1 /\ InfoOf(listing[j]).rc = 2
          /\ InfoOf(listing[i]).snap /\ InfoOf(listing[j]).snap
    /\ \E i, j \in 1..Len(listing) :
          /\ InfoOf(listing[i]).rc = 1 /\ InfoOf(listing[j]).rc = 2
          /\ ~InfoOf(listing[i]).snap /\ ~InfoOf(listing[j]).snap

Position(s, x) == CHOOSE i \in 1..Len(s) : s[i] = x

(***************************************************************************)
(* C5.  Two names of the grammar with different (major, minor, patch) are  *)
(* ordered by _get_version_key as their triples are, whatever their        *)
(* suffixes, and the one of the greater triple is listed first.            *)
(***************************************************************************)
C5_TripleDecides ==
    \A a, b \in RangeOf(versions) \cap GrammarNames :
        TripleLess(TripleOf(a), TripleOf(b)) =>
            IF listing = <<>>
            THEN \* the names as handed to sorted(): the keys compare as the triples
                 LET key_a == GetVersionKey(a)
                     key_b == GetVersionKey(b)
                 IN  TupleLess(key_a, key_b) /\ ~TupleLess(key_b, key_a)
            ELSE \* the same names once listed
                 Position(listing, b) < Position(listing, a)

\* a snapshot candidate of a greater triple listed before a stable version
C5_Witness ==
    /\ Len(listing) = 2
    /\ RangeOf(listing) \subseteq GrammarNames
    /\ TripleLess(TripleOf(listing[2]), TripleOf(listing[1]))
    /\ InfoOf(listing[1]).snap /\ InfoOf(listing[1]).rc > 0
    /\ listing[2] \in StableNames
    /\ versions = <<listing[1], listing[2]>>

HasProject(content) == \E i \in 1..Len(content) : content[i].kind = "project"
HasReleasedMarker(content) == \E i \in 1..Len(content) : content[i].kind = "package"

SnapshotUnlessReleased(parsed) ==
    parsed # NotParsed =>
        (EndsWith(parsed.text, DASH_SNAPSHOT) <=> ~HasReleasedMarker(cmake))

(***************************************************************************)
(* C6.  A configuration with a PROJECT version and no released-marker      *)
(* gives a version ending with -SNAPSHOT in both scripts, with or without  *)
(* an rc marker; with the released-marker the version is no snapshot.      *)
(***************************************************************************)
C6_SnapshotIffNoReleasedMarker ==
    HasProject(cmake) =>
        SnapshotUnlessReleased(doc_version) /\ SnapshotUnlessReleased(doxy_version)

(***************************************************************************)
(* C7.  Running prepare_documentation again for the version of the last    *)
(* run, whether that run completed or stopped for want of the Doxygen      *)
(* output, leaves the tree one successful run from the original tree       *)
(* leaves.                                                                 *)
(***************************************************************************)
C7_RerunIsIdempotent ==
    [][PublishStep =>
          \* a run for version' on the tree this run left (complete or not)
          /\ PrepareDocumentation(Tree', version', TRUE)
                = PrepareDocumentation(Tree, version', TRUE)
          \* this run repeats the last one: orig is the tree before that one
          /\ (/\ outcome' = "ok"
              /\ outcome \in {"ok", "FileNotFoundError"}
              /\ version' = version)
                => Tree' = PrepareDocumentation(orig, version, TRUE)]_vars

\* the run before left the directory of the version without its content
C7_Witness ==
    /\ outcome = "ok"
    /\ version \in orig.dirs
    /\ version \notin orig.filled
    /\ version \in filled

\* v is listed before w: greater triple first, then by kind and rc
MoreRecent(v, w) ==
    \/ TripleLess(<<w.major, w.minor, w.patch>>, <<v.major, v.minor, v.patch>>)
    \/ /\ <<w.major, w.minor, w.patch>> = <<v.major, v.minor, v.patch>>
       /\ \/ SortedRank(v) < SortedRank(w)
          \/ SortedRank(v) = SortedRank(w) /\ v.rc > w.rc

(***************************************************************************)
(* C8.  After a successful run list_versions.md has a `latest` row first   *)
(* exactly when `latest` exists, then one row for each directory named by  *)
(* the version grammar, most recent first, and no other row.               *)
(***************************************************************************)
C8_IndexListsTheTree ==
    outcome = "ok" =>
        LET rows == IF latest # NoLatest THEN Tail(list_versions) ELSE list_versions
        IN  /\ latest # NoLatest => list_versions # <<>> /\ Head(list_versions) = LATEST
            /\ LATEST \notin RangeOf(rows)
            /\ RangeOf(rows) = dirs \cap GrammarNames
            /\ Len(rows) = Cardinality(dirs \cap GrammarNames)
            /\ version \in GrammarNames => version \in RangeOf(rows)
            /\ \A d \in orig.dirs \ dirs : d \notin RangeOf(rows)
            /\ \A i, j \in 1..Len(rows) :
                  i < j => MoreRecent(InfoOf(rows[i]), InfoOf(rows[j]))

\* a final release published over its snapshot: latest row, then the version
C8_Witness ==
    /\ outcome = "ok"
    /\ latest # NoLatest
    /\ orig.dirs \ dirs # {}
    /\ list_versions = <<LATEST, version>>

(***************************************************************************)
(* C9.  A name whose base version cannot be parsed gets a key below the    *)
(* key of every valid version, those of base 0.0.0 included, and so is     *)
(* listed after all of them.                                               *)
(***************************************************************************)
C9_SentinelBelowEveryValid ==
    \A a \in RangeOf(versions) \cap InvalidNames, b \in RangeOf(versions) \cap GrammarNames :
        /\ TupleLess(GetVersionKey(a), GetVersionKey(b))
        /\ listing # <<>> => Position(listing, b) < Position(listing, a)

(***************************************************************************)
(* C10.  No run removes a directory whose name does not end with           *)
(* -SNAPSHOT, so a published release stays, and `latest`, once set, points *)
(* to a directory of the tree.                                             *)
(***************************************************************************)
C10_ReleasesStay ==
    /\ [][\A d \in dirs : ~EndsWith(d, DASH_SNAPSHOT) => d \in dirs']_vars
    /\ [](latest # NoLatest => latest \in dirs)

\* `latest` was set by an earlier run and its target is still there
C10_Witness ==
    /\ outcome = "ok"
    /\ orig.latest # NoLatest
    /\ latest = orig.latest
    /\ version # latest
    /\ latest \in dirs

=============================================================================
